---- MODULE Spec2Model ----
(***************************************************************************)
(* A model of the MindWeaver plugin (src/src/main.ts, the class            *)
(* AutoBacklinksPlugin that starts at line 891): the rate limiter          *)
(* waitForRateLimit and the connection pipeline generateBacklinks ->       *)
(* validateAndFilterConnections -> checkTitlesRelevance /                  *)
(* validateConnection, with the provider adapters they call.               *)
(*                                                                         *)
(* Time is counted in milliseconds.  A text is a sequence of lexemes       *)
(* (maximal runs of characters: a word, a JSON punctuation mark, a blank). *)
(***************************************************************************)
EXTENDS Integers, Sequences, FiniteSets, TLC

\* ------------------------------------------------------------------------
\* Rate limiter: state
\* ------------------------------------------------------------------------
VARIABLES
    requestsInLastMinute,  \* this.requestsInLastMinute
    sinceLast,             \* Date.now() - this.lastRequestTime, saturated at MIN_REQUEST_INTERVAL
    rlpc,                  \* per caller: where it is inside waitForRateLimit
    tslr,                  \* per caller: the local timeSinceLastRequest
    timer,                 \* per caller: what is left of the pending setTimeout
    lastGap,               \* time between the two latest grants (saturated)
    grants,                \* number of grants so far (saturated at 2)
    observing,             \* the run observes a 60 s window of grants
    markOn,                \* a grant has been chosen as the start of an observation window
    markElapsed,           \* time since that grant
    markCount              \* grants since (and including) that grant

rlvars == <<requestsInLastMinute, sinceLast, rlpc, tslr, timer, lastGap, grants,
            observing, markOn, markElapsed, markCount>>

RPM_LIMIT == 150
MIN_REQUEST_INTERVAL == 500
MINUTE_WAIT == 60 * 1000

\* The observation window of the per-minute claim.
WINDOW == 60 * 1000

\* The callers of waitForRateLimit, and how long a caller may pause
\* before its next call.  A run that observes a window takes the pauses of
\* 500 ms and more only: a shorter pause is topped up to 500 ms by the call
\* and gives the same grant times as no pause.
Callers == {"c1", "c2"}
IdleDelays == {0, 200, 700, 30 * 1000, 60 * 1000}
WindowIdleDelays == {0, 30 * 1000, 60 * 1000}

Min(a, b) == IF a < b THEN a ELSE b

\* The interval test of line 917 with its comparison turned round.
IntervalWaitFlipped(t) == IF t > MIN_REQUEST_INTERVAL THEN MIN_REQUEST_INTERVAL - t ELSE 0
\* lines 917-920: the wait that keeps the minimum interval; 0 = no await.
IntervalWait(t) == IF t < MIN_REQUEST_INTERVAL THEN MIN_REQUEST_INTERVAL - t ELSE 0

\* line 908: the per-minute cap is reached.
CapReached(n) == n >= RPM_LIMIT

RLInit ==
    /\ requestsInLastMinute = 0
    /\ sinceLast = MIN_REQUEST_INTERVAL      \* lastRequestTime = 0: long ago
    /\ rlpc = [p \in Callers |-> "idle"]
    /\ tslr = [p \in Callers |-> 0]
    /\ timer = [p \in Callers |-> 0]
    /\ lastGap = MIN_REQUEST_INTERVAL
    /\ grants = 0
    /\ observing = FALSE
    /\ markOn = FALSE
    /\ markElapsed = 0
    /\ markCount = 0

\* line 922: this.lastRequestTime = Date.now(); the call returns (the grant).
\* The observation window starts at a grant chosen freely among all grants.
Grant(p) ==
    /\ sinceLast' = 0
    /\ lastGap' = sinceLast
    /\ grants' = Min(grants + 1, 2)
    /\ rlpc' = [rlpc EXCEPT ![p] = "idle"]
    /\ timer' = [timer EXCEPT ![p] = 0]
    /\ IF markOn
         THEN /\ markCount' = Min(markCount + 1, RPM_LIMIT + 1)
              /\ UNCHANGED <<markOn, markElapsed>>
         ELSE \E start \in (IF observing THEN BOOLEAN ELSE {FALSE}) :
                /\ markOn' = start
                /\ markCount' = IF start THEN 1 ELSE 0
                /\ markElapsed' = 0

\* lines 916-922 from the interval test on, for a caller whose local
\* timeSinceLastRequest is t.
AfterCap(p, t) ==
    IF IntervalWait(t) > 0
      THEN /\ rlpc' = [rlpc EXCEPT ![p] = "interval"]
           /\ timer' = [timer EXCEPT ![p] = IntervalWait(t)]
           /\ UNCHANGED <<sinceLast, lastGap, grants, markOn, markElapsed, markCount>>
      ELSE Grant(p)

\* lines 900-912: the synchronous part of a call, up to its first await.
WaitForRateLimit(p) ==
    /\ rlpc[p] = "idle"
    /\ tslr' = [tslr EXCEPT ![p] = sinceLast]
    /\ IF CapReached(requestsInLastMinute + 1)
         THEN /\ requestsInLastMinute' = requestsInLastMinute + 1
              /\ rlpc' = [rlpc EXCEPT ![p] = "minute"]
              /\ timer' = [timer EXCEPT ![p] = MINUTE_WAIT]
              /\ UNCHANGED <<sinceLast, lastGap, grants, markOn, markElapsed, markCount>>
         ELSE /\ requestsInLastMinute' = requestsInLastMinute + 1
              /\ AfterCap(p, sinceLast)

\* Calls are issued back-to-back: a call starts when no other is running.
RLCall(p) ==
    /\ \A q \in Callers : rlpc[q] = "idle"
    /\ WaitForRateLimit(p)

\* lines 912-914: the full-minute timer has fired.
RLMinuteDone(p) ==
    /\ rlpc[p] = "minute"
    /\ timer[p] = 0
    /\ requestsInLastMinute' = 0
    /\ AfterCap(p, tslr[p])
    /\ UNCHANGED tslr

\* lines 919-922: the interval timer has fired.
RLIntervalDone(p) ==
    /\ rlpc[p] = "interval"
    /\ timer[p] = 0
    /\ Grant(p)
    /\ UNCHANGED <<requestsInLastMinute, tslr>>

\* Time passes by dt.
Elapse(dt) ==
    /\ sinceLast' = Min(sinceLast + dt, MIN_REQUEST_INTERVAL)
    /\ timer' = [p \in Callers |-> IF timer[p] > dt THEN timer[p] - dt ELSE 0]
    /\ IF markOn /\ markElapsed + dt > WINDOW
         THEN /\ markOn' = FALSE
              /\ markElapsed' = 0
              /\ markCount' = 0
         ELSE /\ markElapsed' = IF markOn THEN markElapsed + dt ELSE 0
              /\ UNCHANGED <<markOn, markCount>>
    /\ UNCHANGED <<requestsInLastMinute, rlpc, tslr, lastGap, grants>>

\* A pending setTimeout runs out (setTimeout never fires early).
TimerRuns ==
    /\ \E p \in Callers : timer[p] > 0
    /\ LET running == {timer[p] : p \in {q \in Callers : timer[q] > 0}}
           dt == CHOOSE d \in running : \A e \in running : d <= e
       IN Elapse(dt)

\* Between two calls the caller does something else for a while.
CallerIdles ==
    /\ \A q \in Callers : rlpc[q] = "idle"
    /\ grants > 0
    /\ sinceLast = 0
    /\ \E d \in (IF observing THEN WindowIdleDelays ELSE IdleDelays) \ {0} : Elapse(d)

\* ------------------------------------------------------------------------
\* Texts and JavaScript values
\* ------------------------------------------------------------------------

\* String.prototype.toLowerCase, lexeme by lexeme.
LexLower(l) ==
    CASE l = "True" -> "true"
      [] l = "TRUE" -> "true"
      [] l = "False" -> "false"
      [] l = "Sure" -> "sure"
      [] OTHER -> l

\* The lexemes String.prototype.trim removes.
LexIsSpace(l) == l \in {" ", "\n"}

\* The lexemes that hold the characters t-r-u-e / f-a-l-s-e in a row.
LexHasTrue(l) == l \in {"true", "untrue", "'true'"}
LexHasFalse(l) == l \in {"false", "'false'"}

ToLowerCase(text) == [k \in 1..Len(text) |-> LexLower(text[k])]

RECURSIVE TrimStart(_)
TrimStart(text) ==
    IF text # <<>> /\ LexIsSpace(Head(text)) THEN TrimStart(Tail(text)) ELSE text

RECURSIVE TrimEnd(_)
TrimEnd(text) ==
    IF text # <<>> /\ LexIsSpace(text[Len(text)])
      THEN TrimEnd(SubSeq(text, 1, Len(text) - 1))
      ELSE text

Trim(text) == TrimEnd(TrimStart(text))

\* String.prototype.includes('true') and includes('false').
IncludesTrue(text) == \E k \in 1..Len(text) : LexHasTrue(text[k])
IncludesFalse(text) == \E k \in 1..Len(text) : LexHasFalse(text[k])

TRUE_TEXT == <<"true">>
FALSE_TEXT == <<"false">>

\* JavaScript values that JSON.parse can put into an array.
JSBool(b) == [t |-> "boolean", b |-> b, n |-> 0, s |-> ""]
JSNum(n) == [t |-> "number", b |-> FALSE, n |-> n, s |-> ""]
JSStr(s) == [t |-> "string", b |-> FALSE, n |-> 0, s |-> s]
JSNull == [t |-> "null", b |-> FALSE, n |-> 0, s |-> ""]

\* ToBoolean: what `!x` tests.
Truthy(v) ==
    CASE v.t = "boolean" -> v.b
      [] v.t = "number" -> v.n # 0
      [] v.t = "string" -> v.s # ""
      [] OTHER -> FALSE

\* JSON scalars, as lexemes ('x' stands for the JSON string "x").
JSONScalars == {"true", "false", "null", "0", "1", "'false'", "'true'"}
JSONValue(l) ==
    CASE l = "true" -> JSBool(TRUE)
      [] l = "false" -> JSBool(FALSE)
      [] l = "0" -> JSNum(0)
      [] l = "1" -> JSNum(1)
      [] l = "'false'" -> JSStr("false")
      [] l = "'true'" -> JSStr("true")
      [] OTHER -> JSNull

\* JSON.parse: ok = FALSE stands for the SyntaxError it throws.
ParseError == [ok |-> FALSE, isArray |-> FALSE, elems |-> <<>>]
JSONParse(text) ==
    LET w == SelectSeq(text, LAMBDA l : ~LexIsSpace(l))
        n == Len(w)
        inner == SubSeq(w, 2, n - 1)
        m == Len(inner)
    IN  IF n = 1 /\ w[1] \in JSONScalars
          THEN [ok |-> TRUE, isArray |-> FALSE, elems |-> <<JSONValue(w[1])>>]
        ELSE IF n >= 2 /\ w[1] = "[" /\ w[n] = "]"
          THEN IF m = 0
                 THEN [ok |-> TRUE, isArray |-> TRUE, elems |-> <<>>]
               ELSE IF /\ m % 2 = 1
                       /\ \A k \in 1..m : IF k % 2 = 1 THEN inner[k] \in JSONScalars
                                                       ELSE inner[k] = ","
                 THEN [ok |-> TRUE, isArray |-> TRUE,
                       elems |-> [k \in 1..((m + 1) \div 2) |-> JSONValue(inner[2 * k - 1])]]
               ELSE ParseError
        ELSE ParseError

\* ------------------------------------------------------------------------
\* Settings and providers
\* ------------------------------------------------------------------------
Models == {"gpt-4", "gpt-3.5-turbo", "claude-3.5", "claude-3", "llama-2-70b",
           "llama-local", "ollama"}

\* MODEL_PRICING[model].provider
MODEL_PRICING(model) ==
    CASE model \in {"gpt-4", "gpt-3.5-turbo"} -> "openai"
      [] model \in {"claude-3.5", "claude-3"} -> "anthropic"
      [] model = "llama-2-70b" -> "together"
      [] OTHER -> "local"

\* What the provider's HTTP endpoint answers: an error (network failure or
\* a status that is not ok), or the text the model wrote.
HttpError == [failed |-> TRUE, text |-> <<>>]
HttpOk(text) == [failed |-> FALSE, text |-> text]

\* What an adapter hands back: it threw, or the normalized message content.
Threw(adapter) == [threw |-> TRUE, content |-> <<>>, adapter |-> adapter]
Content(adapter, text) == [threw |-> FALSE, content |-> text, adapter |-> adapter]

\* lines 960-999
MakeClaudeRequest(http) ==
    IF http.failed THEN Threw("claude") ELSE Content("claude", http.text)

\* lines 1001-1037
MakeTogetherRequest(http) ==
    IF http.failed THEN Threw("together") ELSE Content("together", http.text)

\* lines 1039-1117
MakeLlamaRequest(model, http) ==
    IF model = "ollama"
      THEN IF http.failed THEN Threw("ollama")
           ELSE LET responseText == Trim(ToLowerCase(http.text))
                IN  IF IncludesTrue(responseText) THEN Content("ollama", TRUE_TEXT)
                    ELSE IF IncludesFalse(responseText) THEN Content("ollama", FALSE_TEXT)
                    ELSE Threw("ollama")
      ELSE IF http.failed THEN Threw("llama") ELSE Content("llama", http.text)

\* lines 925-958
MakeOpenAIRequest(model, http) ==
    IF MODEL_PRICING(model) = "together" THEN MakeTogetherRequest(http)
    ELSE IF MODEL_PRICING(model) = "local" THEN MakeLlamaRequest(model, http)
    ELSE IF http.failed THEN Threw("openai") ELSE Content("openai", http.text)

\* ------------------------------------------------------------------------
\* checkTitlesRelevance and validateConnection
\* ------------------------------------------------------------------------
Returned(v) == [threw |-> FALSE, value |-> v]
Thrown == [threw |-> TRUE, value |-> <<>>]

AllTrue(n) == [k \in 1..n |-> JSBool(TRUE)]

\* checkTitlesRelevance without the length test of line 1300.
CheckTitlesRelevanceAnyLength(n, model, http) ==
    LET result == MakeOpenAIRequest(model, http)
        text == Trim(result.content)
        boolArray == JSONParse(text)
    IN  IF result.threw THEN Returned(AllTrue(n))
        ELSE IF boolArray.ok /\ boolArray.isArray
          THEN Returned(boolArray.elems)
        ELSE Returned(AllTrue(n))

\* checkTitlesRelevance with a catch that rethrows (as the adapters' do).
CheckTitlesRelevanceRethrows(n, model, http) ==
    LET result == MakeOpenAIRequest(model, http)
        text == Trim(result.content)
        boolArray == JSONParse(text)
    IN  IF result.threw THEN Thrown
        ELSE IF boolArray.ok /\ boolArray.isArray /\ Len(boolArray.elems) = n
          THEN Returned(boolArray.elems)
        ELSE Returned(AllTrue(n))

\* lines 1245-1315, for n titles
CheckTitlesRelevance(n, model, http) ==
    LET result == MakeOpenAIRequest(model, http)
        text == Trim(result.content)
        boolArray == JSONParse(text)
    IN  IF result.threw THEN Returned(AllTrue(n))                        \* catch, line 1310
        ELSE IF boolArray.ok /\ boolArray.isArray /\ Len(boolArray.elems) = n
          THEN Returned(boolArray.elems)                                 \* line 1301
        ELSE Returned(AllTrue(n))                                        \* line 1308

\* lines 1378-1452: the adapter validateConnection picks
ValidateRequest(model, http) ==
    CASE MODEL_PRICING(model) = "openai" -> MakeOpenAIRequest(model, http)
      [] MODEL_PRICING(model) = "anthropic" -> MakeClaudeRequest(http)
      [] MODEL_PRICING(model) = "together" -> MakeTogetherRequest(http)
      [] OTHER -> MakeLlamaRequest(model, http)

\* validateConnection with the pre-filter's policy in its catch (fail open).
ValidateConnectionFailsOpen(model, http) ==
    LET result == ValidateRequest(model, http)
    IN  IF result.threw THEN [threw |-> FALSE, value |-> TRUE]
        ELSE [threw |-> FALSE, value |-> ToLowerCase(Trim(result.content)) = TRUE_TEXT]

\* validateConnection without the toLowerCase of line 1454.
ValidateConnectionCaseSensitive(model, http) ==
    LET result == ValidateRequest(model, http)
    IN  IF result.threw THEN [threw |-> FALSE, value |-> FALSE]
        ELSE [threw |-> FALSE, value |-> Trim(result.content) = TRUE_TEXT]

\* lines 1317-1460
ValidateConnection(model, http) ==
    LET result == ValidateRequest(model, http)
    IN  IF result.threw THEN [threw |-> FALSE, value |-> FALSE]          \* catch, line 1456
        ELSE [threw |-> FALSE, value |-> ToLowerCase(Trim(result.content)) = TRUE_TEXT]

\* ------------------------------------------------------------------------
\* The vault, the settings and one invocation of generateBacklinks
\* ------------------------------------------------------------------------
VARIABLES
    settings,          \* this.settings: model, the three keys (set or empty), excludedFolders,
                       \* format, showHeader, headerLevel
    vault,             \* app.vault.getMarkdownFiles(), in the order the host lists them
    activeFile,        \* app.workspace.getActiveFile()
    hasEditor,         \* app.workspace.activeEditor?.editor is there
    pc,                \* where the invocation is
    currentFile,       \* generateBacklinks: currentFile
    connections,       \* validateAndFilterConnections: connections
    fileInfos,         \* validateAndFilterConnections: fileInfos
    i,                 \* the chunk loop's i
    j,                 \* the inner loop's j
    relevanceResults,  \* the verdicts of the chunk at i
    validConnections,  \* validateAndFilterConnections: validConnections
    notices,           \* the Notices shown, oldest first
    written,           \* the links handed to formatConnections
    inserted,          \* the text handed to editor.replaceRange, <<>> before any call
    target,            \* the note whose editor received the text, NoFile before any call
    currentTitle,      \* validateAndFilterConnections: currentTitle
    requestsSent,      \* model requests issued so far
    status,            \* per entry of fileInfos: what became of it
    failedChunks,      \* the i of the chunks whose title request failed
    lastTitle,         \* the checkTitlesRelevance call that has just returned
    lastVal            \* the validateConnection call that has just returned

pvars == <<settings, vault, activeFile, hasEditor, pc, currentFile, connections, currentTitle, fileInfos,
           i, j, relevanceResults, validConnections, notices, written, inserted, target,
           requestsSent, status, failedChunks, lastTitle, lastVal>>

CHUNK_SIZE == 5

\* Size of the largest vault (without its source note).
BigVault == 6

File(dir, base) == [dir |-> dir, base |-> base]
NoFile == File(<<>>, "")

\* TFile.path, as its segments
Path(f) == f.dir \o <<f.base \o ".md">>

ExampleVault == <<File(<<>>, "A"), File(<<>>, "B"), File(<<>>, "C")>>
FolderVault ==
    <<File(<<>>, "A"), File(<<>>, "X"), File(<<"Projects">>, "X"), File(<<"Archive">>, "Z")>>
LargeVault == <<File(<<>>, "S")>> \o [k \in 1..BigVault |-> File(<<>>, "N" \o ToString(k))]
\* The host may list the files in any order.
ReorderedVault == <<File(<<>>, "A"), File(<<>>, "C"), File(<<>>, "B")>>
Vaults == {ExampleVault, ReorderedVault, FolderVault, LargeVault}

\* The large vault is run with one model that passes the answer through and
\* with the one whose adapter rewrites it.
LargeVaultModels == {"gpt-3.5-turbo", "ollama"}

\* Which of apiKey, anthropicKey, togetherApiKey are set.
KeyConfigs ==
    {[apiKey |-> a, anthropicKey |-> b, togetherApiKey |-> c] :
        <<a, b, c>> \in {<<FALSE, FALSE, FALSE>>, <<TRUE, FALSE, FALSE>>,
                         <<FALSE, TRUE, FALSE>>, <<FALSE, FALSE, TRUE>>}}

ExcludedChoices == {{}, {<<"Archive">>}, {<<"Projects">>}, {<<"X.md">>}}

\* The text a model may answer to validateConnection's question.
ValidateTexts ==
    {<<"true">>, <<" ", "True", "\n">>, <<"false">>, <<"not", " ", "true">>,
     <<"false", ",", " ", "not", " ", "true">>, <<"maybe">>}

RECURSIVE JoinComma(_)
JoinComma(elems) ==
    IF Len(elems) <= 1 THEN elems
    ELSE <<Head(elems), ",">> \o JoinComma(Tail(elems))

ArrayText(elems) == <<"[">> \o JoinComma(elems) \o <<"]">>

\* The text a model may answer to checkTitlesRelevance's question about n titles.
TitleTexts(n) ==
    {ArrayText([k \in 1..n |-> "true"]),
     ArrayText([k \in 1..n |-> "false"]),
     ArrayText([k \in 1..n |-> IF k % 2 = 1 THEN "true" ELSE "false"]),
     <<" ">> \o ArrayText([k \in 1..n |-> IF k % 2 = 1 THEN "false" ELSE "true"]) \o <<"\n">>,
     ArrayText([k \in 1..n |-> IF k % 2 = 1 THEN "0" ELSE "1"]),
     ArrayText([k \in 1..n |-> "'false'"]),
     ArrayText([k \in 1..(n + 1) |-> "false"]),
     ArrayText([k \in 1..(n - 1) |-> "false"]),
     <<"false">>,
     <<"Sure", " ">> \o ArrayText([k \in 1..n |-> "false"]),
     <<"maybe">>}

HttpOutcomes(texts) == {HttpError} \cup {HttpOk(t) : t \in texts}

\* isFileExcluded without the comparison of the whole path.
IsFileExcludedPrefixOnly(file, excludedFolders) ==
    \E folder \in excludedFolders :
        /\ Len(folder) < Len(Path(file))
        /\ SubSeq(Path(file), 1, Len(folder)) = folder

\* lines 1538-1542
IsFileExcluded(file, excludedFolders) ==
    \E folder \in excludedFolders :
        \/ /\ Len(folder) < Len(Path(file))                   \* startsWith(folder + '/')
           /\ SubSeq(Path(file), 1, Len(folder)) = folder
        \/ Path(file) = folder

\* app.vault.getAbstractFileByPath; NoFile stands for null
GetAbstractFileByPath(path) ==
    IF \E k \in 1..Len(vault) : Path(vault[k]) = path
      THEN vault[CHOOSE k \in 1..Len(vault) : Path(vault[k]) = path]
      ELSE NoFile

\* `[[${file.basename}]]`
Link(file) == <<"[[", file.base, "]]">>

\* link.match(/\[\[(.*?)\]\]/): the text between the brackets, "" when no match
LinkFilename(link) ==
    IF Len(link) = 3 /\ link[1] = "[[" /\ link[3] = "]]" THEN link[2] ELSE ""

\* lines 1190-1192
PotentialConnections(cur) ==
    LET keep == SelectSeq(vault, LAMBDA f :
                    Path(f) # Path(cur) /\ ~IsFileExcluded(f, settings.excludedFolders))
    IN  [k \in 1..Len(keep) |-> Link(keep[k])]

\* lines 1473-1482
FileInfos(conns) ==
    LET infos == [k \in 1..Len(conns) |-> [link |-> conns[k], filename |-> LinkFilename(conns[k])]]
    IN  SelectSeq(infos, LAMBDA info :
            /\ info.filename # ""
            /\ GetAbstractFileByPath(<<info.filename \o ".md">>) # NoFile
            /\ ~IsFileExcluded(GetAbstractFileByPath(<<info.filename \o ".md">>),
                               settings.excludedFolders))

\* The document an entry of fileInfos is read from (line 1504).
FileOf(info) == GetAbstractFileByPath(<<info.filename \o ".md">>)

\* The display settings: the four layouts, the header off or at one of the six
\* levels.
Formats == {"comma", "bullet", "number", "line"}
FormatConfigs ==
    {[format |-> f, showHeader |-> h, headerLevel |-> n] :
        f \in Formats, h \in BOOLEAN, n \in 1..6}
DefaultFormat == [format |-> "comma", showHeader |-> TRUE, headerLevel |-> 3]

\* Array.prototype.join
RECURSIVE Join(_, _)
Join(texts, sep) ==
    IF Len(texts) = 0 THEN <<>>
    ELSE IF Len(texts) = 1 THEN texts[1]
    ELSE texts[1] \o <<sep>> \o Join(Tail(texts), sep)

\* '#'.repeat(n)
Repeat(n) == [k \in 1..n |-> "#"]

\* formatConnections with the numbers of the numbered list starting at 0.
FormatConnectionsZeroBased(links, s) ==
    IF Len(links) = 0 THEN <<>>
    ELSE
      LET header == IF s.showHeader
                      THEN Repeat(s.headerLevel) \o <<" Related notes", "\n">>
                      ELSE <<>>
          formatter(link, k) ==
              CASE s.format = "bullet" -> <<"- ">> \o link
                [] s.format = "number" -> <<ToString(k), ". ">> \o link
                [] OTHER -> link
          formattedLinks ==
              IF s.format = "comma"
                THEN Join(links, ", ")
                ELSE Join([k \in 1..Len(links) |-> formatter(links[k], k - 1)], "\n")
      IN  header \o formattedLinks \o <<"\n">>

\* formatConnections whose output drops the brackets of the links.
FormatConnectionsBareNames(links, s) ==
    IF Len(links) = 0 THEN <<>>
    ELSE
      LET header == IF s.showHeader
                      THEN Repeat(s.headerLevel) \o <<" Related notes", "\n">>
                      ELSE <<>>
          formatter(link, k) ==
              CASE s.format = "bullet" -> <<"- ", link[2]>>
                [] s.format = "number" -> <<ToString(k + 1), ". ">> \o link
                [] OTHER -> link
          formattedLinks ==
              IF s.format = "comma"
                THEN Join(links, ", ")
                ELSE Join([k \in 1..Len(links) |-> formatter(links[k], k - 1)], "\n")
      IN  header \o formattedLinks \o <<"\n">>

\* lines 1223-1243; k is the index the formatter is called with
FormatConnections(links, s) ==
    IF Len(links) = 0 THEN <<>>
    ELSE
      LET header == IF s.showHeader
                      THEN Repeat(s.headerLevel) \o <<" Related notes", "\n">>
                      ELSE <<>>
          formatter(link, k) ==
              CASE s.format = "bullet" -> <<"- ">> \o link
                [] s.format = "number" -> <<ToString(k + 1), ". ">> \o link
                [] OTHER -> link
          formattedLinks ==
              IF s.format = "comma"
                THEN Join(links, ", ")
                ELSE Join([k \in 1..Len(links) |-> formatter(links[k], k - 1)], "\n")
      IN  header \o formattedLinks \o <<"\n">>

NoTitleCall == [called |-> FALSE, n |-> 0, http |-> HttpError, failed |-> FALSE,
                threw |-> FALSE, result |-> <<>>]
NoValCall == [called |-> FALSE, pos |-> 0, http |-> HttpError, failed |-> FALSE,
              threw |-> FALSE, result |-> FALSE, pushed |-> FALSE]

PInit ==
    /\ vault \in Vaults
    /\ activeFile \in {vault[1]} \cup (IF vault = ExampleVault THEN {NoFile} ELSE {})
                                \cup (IF vault = FolderVault THEN {vault[2]} ELSE {})
    /\ hasEditor \in (IF vault = ExampleVault THEN BOOLEAN ELSE {TRUE})
    /\ \E m \in Models, keys \in KeyConfigs, ex \in ExcludedChoices, fc \in FormatConfigs :
         /\ vault \in {LargeVault, ReorderedVault} => keys.apiKey /\ m \in LargeVaultModels
         /\ vault # FolderVault => ex = {}
         /\ (vault # ExampleVault \/ m # "gpt-4" \/ ~keys.apiKey) => fc = DefaultFormat
         /\ settings = [model |-> m, apiKey |-> keys.apiKey, anthropicKey |-> keys.anthropicKey,
                        togetherApiKey |-> keys.togetherApiKey, excludedFolders |-> ex,
                        format |-> fc.format, showHeader |-> fc.showHeader,
                        headerLevel |-> fc.headerLevel]
    /\ pc = "idle"
    /\ currentFile = NoFile
    /\ connections = <<>>
    /\ fileInfos = <<>>
    /\ i = 0
    /\ j = 0
    /\ relevanceResults = <<>>
    /\ validConnections = <<>>
    /\ notices = <<>>
    /\ written = <<>>
    /\ inserted = <<>>
    /\ target = NoFile
    /\ currentTitle = ""
    /\ requestsSent = 0
    /\ status = <<>>
    /\ failedChunks = {}
    /\ lastTitle = NoTitleCall
    /\ lastVal = NoValCall

Notify(kind) == notices' = Append(notices, kind)

\* The end of generateBacklinks without the test of the list's length.
FinishWithoutLengthTest(links) ==
    /\ pc' = "done"
    /\ IF hasEditor
         THEN /\ written' = links
              /\ inserted' = FormatConnections(links, settings)
              /\ target' = activeFile
              /\ Notify("added")
         ELSE UNCHANGED <<written, inserted, target, notices>>

\* lines 1197-1215: what generateBacklinks does with the validated links.
Finish(links) ==
    /\ pc' = "done"
    /\ IF Len(links) > 0
         THEN IF hasEditor
                THEN /\ written' = links
                     /\ inserted' = FormatConnections(links, settings)
                     /\ target' = activeFile
                     /\ Notify("added")
                ELSE UNCHANGED <<written, inserted, target, notices>>
         ELSE /\ Notify("none")
              /\ UNCHANGED <<written, inserted, target>>

\* lines 1217-1220: the catch of generateBacklinks.
Abort ==
    /\ pc' = "done"
    /\ Notify("error")
    /\ UNCHANGED <<written, inserted, target>>

\* lines 1170-1186: the command runs generateBacklinks up to its first await.
GenerateBacklinks ==
    /\ pc = "idle"
    /\ IF ~settings.apiKey /\ ~settings.togetherApiKey /\ ~settings.anthropicKey
         THEN /\ Notify("needKey")
              /\ pc' = "done"
              /\ UNCHANGED currentFile
         ELSE IF activeFile = NoFile
           THEN /\ Notify("noActiveFile")
                /\ pc' = "done"
                /\ UNCHANGED currentFile
           ELSE /\ Notify("finding")
                /\ pc' = "reading"
                /\ currentFile' = activeFile
    /\ UNCHANGED <<settings, vault, activeFile, hasEditor, connections, currentTitle, fileInfos, i, j,
                   relevanceResults, validConnections, written, inserted, target, requestsSent, status,
                   failedChunks, lastTitle, lastVal>>

\* line 1186 rejects: the source note cannot be read.
ReadCurrentFails ==
    /\ pc = "reading"
    /\ Abort
    /\ UNCHANGED <<settings, vault, activeFile, hasEditor, currentFile, connections, currentTitle, fileInfos,
                   i, j, relevanceResults, validConnections, requestsSent, status,
                   failedChunks, lastTitle, lastVal>>

\* lines 1186-1195 and 1462-1486: the source note is read, the candidates are
\* listed, validateAndFilterConnections runs up to its first await.
ReadCurrent ==
    /\ pc = "reading"
    /\ connections' = PotentialConnections(currentFile)
    /\ currentTitle' = IF activeFile = NoFile THEN currentTitle ELSE activeFile.base
    /\ IF activeFile = NoFile                                    \* line 1469
         THEN /\ fileInfos' = <<>>
              /\ Notify("none")
              /\ pc' = "done"
         ELSE /\ fileInfos' = FileInfos(connections')
              /\ IF Len(fileInfos') = 0
                   THEN /\ Notify("none")
                        /\ pc' = "done"
                   ELSE /\ pc' = "titles"
                        /\ UNCHANGED notices
    /\ status' = [k \in 1..Len(fileInfos') |-> "pending"]
    /\ i' = 0
    /\ UNCHANGED <<settings, vault, activeFile, hasEditor, currentFile, j, relevanceResults,
                   validConnections, written, inserted, target, requestsSent, failedChunks, lastTitle, lastVal>>

ChunkLen == Min(CHUNK_SIZE, Len(fileInfos) - i)

\* lines 1487-1491: one chunk's titles go to checkTitlesRelevance.
CheckTitles ==
    /\ pc = "titles"
    /\ \E http \in HttpOutcomes(TitleTexts(ChunkLen)) :
         LET r == CheckTitlesRelevance(ChunkLen, settings.model, http)
         IN  /\ requestsSent' = requestsSent + 1
             /\ lastTitle' = [called |-> TRUE, n |-> ChunkLen, http |-> http,
                              failed |-> MakeOpenAIRequest(settings.model, http).threw,
                              threw |-> r.threw, result |-> r.value]
             /\ failedChunks' = IF MakeOpenAIRequest(settings.model, http).threw
                                  THEN failedChunks \cup {i} ELSE failedChunks
             /\ IF r.threw
                  THEN /\ Abort
                       /\ UNCHANGED <<relevanceResults, j>>
                  ELSE /\ relevanceResults' = r.value
                       /\ j' = 0
                       /\ pc' = "candidate"
                       /\ UNCHANGED <<notices, written, inserted, target>>
    /\ lastVal' = NoValCall
    /\ UNCHANGED <<settings, vault, activeFile, hasEditor, currentFile, connections, currentTitle, fileInfos,
                   i, validConnections, status>>

\* The inner loop moves on to the next entry, or to the pause after the chunk.
NextCandidate ==
    /\ j' = j + 1
    /\ pc' = IF j + 1 < ChunkLen THEN "candidate" ELSE "pause"

\* lines 1496-1501: the title check said no.
SkipCandidate ==
    /\ pc = "candidate"
    /\ ~Truthy(relevanceResults[j + 1])
    /\ status' = [status EXCEPT ![i + j + 1] = "skipped"]
    /\ NextCandidate
    /\ lastTitle' = NoTitleCall
    /\ lastVal' = NoValCall
    /\ UNCHANGED <<settings, vault, activeFile, hasEditor, currentFile, connections, currentTitle, fileInfos,
                   i, relevanceResults, validConnections, notices, written, inserted, target,
                   requestsSent,
                   failedChunks>>

\* lines 1504-1509 and 1524-1527: the candidate's file cannot be read.
ReadCandidateFails ==
    /\ pc = "candidate"
    /\ Truthy(relevanceResults[j + 1])
    /\ status' = [status EXCEPT ![i + j + 1] = "readfail"]
    /\ NextCandidate
    /\ lastTitle' = NoTitleCall
    /\ lastVal' = NoValCall
    /\ UNCHANGED <<settings, vault, activeFile, hasEditor, currentFile, connections, currentTitle, fileInfos,
                   i, relevanceResults, validConnections, notices, written, inserted, target,
                   requestsSent,
                   failedChunks>>

\* lines 1504-1522: the candidate is read and validated.
ValidateCandidate ==
    /\ pc = "candidate"
    /\ Truthy(relevanceResults[j + 1])
    /\ FileOf(fileInfos[i + j + 1]) # NoFile                       \* line 1505
    /\ \E http \in HttpOutcomes(ValidateTexts) :
         LET r == ValidateConnection(settings.model, http)
             isValid == ~r.threw /\ r.value
         IN  /\ requestsSent' = requestsSent + 1
             /\ validConnections' = IF isValid
                                      THEN Append(validConnections, fileInfos[i + j + 1].link)
                                      ELSE validConnections
             /\ status' = [status EXCEPT ![i + j + 1] =
                              IF r.threw THEN "threw"
                              ELSE IF isValid THEN "accepted" ELSE "rejected"]
             /\ lastVal' = [called |-> TRUE, pos |-> i + j + 1, http |-> http,
                            failed |-> ValidateRequest(settings.model, http).threw,
                            threw |-> r.threw, result |-> r.value,
                            pushed |-> validConnections' # validConnections]
    /\ NextCandidate
    /\ lastTitle' = NoTitleCall
    /\ UNCHANGED <<settings, vault, activeFile, hasEditor, currentFile, connections, currentTitle, fileInfos,
                   i, relevanceResults, notices, written, inserted, target, failedChunks>>

\* The pause after a chunk with a promise that is never resolved (setTimeout
\* is not given resolve): the invocation stays in its pause.
PauseNeverResolved ==
    /\ pc = "pause"
    /\ UNCHANGED pvars

\* lines 1531-1535 and 1197-1215: the pause after a chunk is over; the next
\* chunk starts, or the links are returned and written.
PauseDone ==
    /\ pc = "pause"
    /\ i' = i + CHUNK_SIZE
    /\ IF i + CHUNK_SIZE < Len(fileInfos)
         THEN /\ pc' = "titles"
              /\ UNCHANGED <<notices, written, inserted, target>>
         ELSE Finish(validConnections)
    /\ lastTitle' = NoTitleCall
    /\ lastVal' = NoValCall
    /\ UNCHANGED <<settings, vault, activeFile, hasEditor, currentFile, connections, currentTitle, fileInfos,
                   j, relevanceResults, validConnections, requestsSent, status, failedChunks>>

\* formatConnections on its own.
VARIABLES
    fmtLinks,          \* formatConnections: links
    fmtOut,            \* the text it returned
    fmtpc              \* "idle" (not in use), "ready" or "done"

fvars == <<fmtLinks, fmtOut, fmtpc>>

\* The lists of links formatConnections is run on: up to MaxLinks links, repeats
\* included.
MaxLinks == 3
FormatInputs ==
    UNION {[1..n -> {Link(File(<<>>, b)) : b \in {"B", "C", "X"}}] : n \in 0..MaxLinks}

FIdle == fmtLinks = <<>> /\ fmtOut = <<>> /\ fmtpc = "idle"

FInit == fmtLinks \in FormatInputs /\ fmtOut = <<>> /\ fmtpc = "ready"

FormatLinks ==
    /\ fmtpc = "ready"
    /\ fmtOut' = FormatConnections(fmtLinks, settings)
    /\ fmtpc' = "done"
    /\ UNCHANGED fmtLinks

\* ------------------------------------------------------------------------
\* weaveTagsIntoNote
\* ------------------------------------------------------------------------
VARIABLES
    vaultTags,         \* the tags metadataCache reports over the vault's files
    noteTags,          \* the tags metadataCache reports for view.file
    customTags,        \* this.settings.customTags
    useOnlyCustomTags, \* this.settings.useOnlyCustomTags
    hasViewFile,       \* view.file is there
    tpc,               \* "idle" (not in use), "ready", "requesting" or "done"
    availableTags,     \* weaveTagsIntoNote: availableTags
    tagInserted,       \* the text handed to editor.replaceRange, <<>> before any call
    tagNotices,        \* the Notices shown, oldest first
    tagRequests,       \* model requests issued
    tagResponse        \* what the endpoint answered to the request

tvars == <<vaultTags, noteTags, customTags, useOnlyCustomTags, hasViewFile, tpc,
           availableTags, tagInserted, tagNotices, tagRequests, tagResponse>>

\* A tag is a text: "#" and a name.
Tag(name) == <<"#", name>>

\* The tags of the vault, the entries of the custom list (with and without
\* '#'), and the texts a model may answer.
TagNames == {"finance", "travel"}
CustomTagLists ==
    {<<>>, << <<"travel">> >>, << Tag("travel") >>, << <<"food">>, Tag("finance") >>}
TagTexts ==
    {Tag("finance") \o <<",", " ">> \o Tag("travel"),
     Tag("finance"),
     <<" ">> \o Tag("travel") \o <<" ", ",">> \o Tag("food"),
     <<"finance", ",", " ">> \o Tag("Finance"),
     <<>>,
     Tag("travel") \o <<",">> \o Tag("travel"),
     <<"Sure", " ">> \o Tag("finance")}

\* String.prototype.split(','): never empty, "" gives [""]
RECURSIVE Split(_)
Split(text) ==
    IF \A k \in 1..Len(text) : text[k] # ","
      THEN <<text>>
      ELSE LET c == CHOOSE k \in 1..Len(text) :
                        text[k] = "," /\ \A m \in 1..(k - 1) : text[m] # ","
           IN  <<SubSeq(text, 1, c - 1)>> \o Split(SubSeq(text, c + 1, Len(text)))

\* lines 1562-1588
AvailableTags ==
    LET fromVault == IF ~useOnlyCustomTags THEN vaultTags ELSE {}
        formattedCustomTags ==
            {IF customTags[k] # <<>> /\ customTags[k][1] = "#"
               THEN customTags[k] ELSE <<"#">> \o customTags[k] : k \in 1..Len(customTags)}
    IN  fromVault \cup formattedCustomTags

\* The tags of the response without the test against availableTags.
SuggestedTagsUnfiltered(content, available) ==
    [k \in 1..Len(Split(content)) |-> Trim(Split(content)[k])]

\* lines 1628-1632
SuggestedTags(content, available) ==
    SelectSeq([k \in 1..Len(Split(content)) |-> Trim(Split(content)[k])],
              LAMBDA tag : tag \in available)

\* lines 1644-1649
NewTags(suggestedTags) == SelectSeq(suggestedTags, LAMBDA tag : tag \notin noteTags)

\* What follows the response without the tests for an empty list.
WeaveResultNoEmptyTests(content) ==
    LET suggestedTags == SuggestedTags(content, availableTags)
    IN  IF ~hasViewFile THEN [notice |-> "noActiveFile", text |-> <<>>]
        ELSE [notice |-> "addedTags",
              text |-> <<"\n">> \o Join(NewTags(suggestedTags), " ")]

\* lines 1628-1659: the notice shown and the text inserted (<<>>: none)
WeaveResult(content) ==
    LET suggestedTags == SuggestedTags(content, availableTags)
    IN  IF Len(suggestedTags) = 0 THEN [notice |-> "noRelevant", text |-> <<>>]
        ELSE IF ~hasViewFile THEN [notice |-> "noActiveFile", text |-> <<>>]
        ELSE IF Len(NewTags(suggestedTags)) = 0 THEN [notice |-> "allPresent", text |-> <<>>]
        ELSE [notice |-> "addedTags",
              text |-> <<"\n">> \o Join(NewTags(suggestedTags), " ")]

NoResponse == [received |-> FALSE, http |-> HttpError]

TIdle ==
    /\ vaultTags = {}
    /\ noteTags = {}
    /\ customTags = <<>>
    /\ useOnlyCustomTags = FALSE
    /\ hasViewFile = TRUE
    /\ tpc = "idle"
    /\ availableTags = {}
    /\ tagInserted = <<>>
    /\ tagNotices = <<>>
    /\ tagRequests = 0
    /\ tagResponse = NoResponse

\* The note is one of the vault's files: its tags are among the vault's.
TInit ==
    /\ vaultTags \in SUBSET {Tag(n) : n \in TagNames}
    /\ noteTags \in SUBSET vaultTags
    /\ customTags \in CustomTagLists
    /\ useOnlyCustomTags \in BOOLEAN
    /\ hasViewFile \in BOOLEAN
    /\ tpc = "ready"
    /\ availableTags = {}
    /\ tagInserted = <<>>
    /\ tagNotices = <<>>
    /\ tagRequests = 0
    /\ tagResponse = NoResponse

\* lines 1559-1627: weaveTagsIntoNote up to its await.
WeaveTagsIntoNote ==
    /\ tpc = "ready"
    /\ availableTags' = AvailableTags
    /\ IF availableTags' = {}
         THEN /\ tagNotices' = Append(tagNotices, "noTags")
              /\ tpc' = "done"
         ELSE IF settings.model \in {"gpt-4", "gpt-3.5-turbo", "claude-3.5", "claude-3",
                                     "llama-2-70b", "llama-local"}
           THEN /\ tpc' = "requesting"
                /\ UNCHANGED tagNotices
           ELSE /\ tagNotices' = Append(tagNotices, "tagError")  \* 'Unsupported model'
                /\ tpc' = "done"
    /\ UNCHANGED <<vaultTags, noteTags, customTags, useOnlyCustomTags, hasViewFile,
                   tagInserted, tagRequests, tagResponse>>

\* lines 1606-1626: the adapter the switch selects
WeaveRequest(model, http) ==
    CASE model \in {"gpt-4", "gpt-3.5-turbo"} -> MakeOpenAIRequest(model, http)
      [] model \in {"claude-3.5", "claude-3"} -> MakeClaudeRequest(http)
      [] model = "llama-2-70b" -> MakeTogetherRequest(http)
      [] OTHER -> MakeLlamaRequest(model, http)

\* lines 1606-1666: the request is answered and the handler runs to its end.
WeaveTagsAnswered ==
    /\ tpc = "requesting"
    /\ \E http \in HttpOutcomes(TagTexts) :
         LET response == WeaveRequest(settings.model, http)
         IN  /\ tagRequests' = tagRequests + 1
             /\ tagResponse' = [received |-> TRUE, http |-> http]
             /\ IF response.threw
                  THEN /\ tagNotices' = Append(tagNotices, "tagError")
                       /\ UNCHANGED tagInserted
                  ELSE /\ tagNotices' = Append(tagNotices, WeaveResult(response.content).notice)
                       /\ tagInserted' = WeaveResult(response.content).text
    /\ tpc' = "done"
    /\ UNCHANGED <<vaultTags, noteTags, customTags, useOnlyCustomTags, hasViewFile,
                   availableTags>>

\* The user opens another note while an invocation is awaiting.
SwitchNote ==
    /\ pc \in {"reading", "titles", "candidate", "pause"}
    /\ \E k \in 1..Len(vault) :
         /\ vault[k] # activeFile
         /\ activeFile' = vault[k]
    /\ lastTitle' = NoTitleCall
    /\ lastVal' = NoValCall
    /\ UNCHANGED <<settings, vault, hasEditor, pc, currentFile, connections, currentTitle,
                   fileInfos, i, j, relevanceResults, validConnections, notices, written,
                   inserted, target, requestsSent, status, failedChunks>>

\* ------------------------------------------------------------------------
\* The earliest pipeline: findRelatedNotes with checkRelevance
\* ------------------------------------------------------------------------
VARIABLES
    relevanceThreshold, \* this.settings.relevanceThreshold, in tenths
    opc,                \* "idle" (not in use), "ready", "reading", "finding" or "done"
    fileIndex,          \* findRelatedNotes: the place of `file` in files
    relatedNotes,       \* findRelatedNotes: relatedNotes
    failedNotes,        \* the notes whose request failed or was answered without a number
    modified,           \* the notes addBacklinks has written a backlink into
    oldNotices          \* the Notices shown, oldest first

ovars == <<relevanceThreshold, opc, fileIndex, relatedNotes, failedNotes, modified, oldNotices>>

\* The slider: 0 to 1 in steps of 0.1.
Thresholds == 0..10

\* What the model may answer to checkRelevance.
RelevanceTexts ==
    {<<"0.8">>, <<"0.3">>, <<"0">>, <<"1">>, <<" ", "0.7", "\n">>,
     <<"0.8", " ", "-", " ", "related">>, <<"Relevance", ":", " ", "0.8">>,
     <<"high">>, <<>>}

\* The number a lexeme denotes, in tenths; NaN for a lexeme that is no number.
NaN == -1
NumberOf(l) ==
    CASE l = "0" -> 0
      [] l = "0.3" -> 3
      [] l = "0.7" -> 7
      [] l = "0.8" -> 8
      [] l = "1" -> 10
      [] OTHER -> NaN

\* parseFloat: leading white space is skipped, the number at the start counts
ParseFloat(text) ==
    IF TrimStart(text) = <<>> THEN NaN ELSE NumberOf(Head(TrimStart(text)))

\* lines 111-133
CheckRelevance(http) ==
    IF http.failed THEN 0
    ELSE LET relevance == ParseFloat(IF http.text = <<>> THEN <<"0">> ELSE http.text)
         IN  IF relevance = NaN THEN 0 ELSE relevance

OIdle ==
    /\ relevanceThreshold = 7
    /\ opc = "idle"
    /\ fileIndex = 0
    /\ relatedNotes = <<>>
    /\ failedNotes = {}
    /\ modified = {}
    /\ oldNotices = <<>>

OInit ==
    /\ relevanceThreshold \in Thresholds
    /\ opc = "ready"
    /\ fileIndex = 0
    /\ relatedNotes = <<>>
    /\ failedNotes = {}
    /\ modified = {}
    /\ oldNotices = <<>>

OldEnd(kind) ==
    /\ opc' = "done"
    /\ oldNotices' = Append(oldNotices, kind)

\* lines 59-74: generateBacklinks up to its first await.
OldGenerateBacklinks ==
    /\ opc = "ready"
    /\ IF ~settings.apiKey THEN OldEnd("needKey")
       ELSE IF activeFile = NoFile THEN OldEnd("noActiveFile")
       ELSE opc' = "reading" /\ UNCHANGED oldNotices
    /\ UNCHANGED <<relevanceThreshold, fileIndex, relatedNotes, failedNotes, modified>>

\* line 74: the read of the current note resolves or rejects.
OldReadCurrent ==
    /\ opc = "reading"
    /\ \/ OldEnd("error") /\ UNCHANGED fileIndex
       \/ opc' = "finding" /\ fileIndex' = 1 /\ UNCHANGED oldNotices
    /\ UNCHANGED <<relevanceThreshold, relatedNotes, failedNotes, modified>>

\* lines 94-105: one turn of the loop of findRelatedNotes.
FindRelatedNotes ==
    /\ opc = "finding"
    /\ fileIndex <= Len(vault)
    /\ LET file == vault[fileIndex]
       IN  IF Path(file) = Path(activeFile)
             THEN /\ fileIndex' = fileIndex + 1
                  /\ UNCHANGED <<opc, relatedNotes, failedNotes, oldNotices>>
             ELSE \/ /\ OldEnd("error")                         \* line 97 rejects
                     /\ UNCHANGED <<fileIndex, relatedNotes, failedNotes>>
                  \/ \E http \in HttpOutcomes(RelevanceTexts) :
                       LET relevance == CheckRelevance(http)
                       IN  /\ relatedNotes' =
                                IF relevance >= relevanceThreshold
                                  THEN Append(relatedNotes, [file |-> file, relevance |-> relevance])
                                  ELSE relatedNotes
                           /\ failedNotes' =
                                IF http.failed \/ \A k \in 1..Len(http.text) :
                                                     NumberOf(http.text[k]) = NaN
                                  THEN failedNotes \cup {file} ELSE failedNotes
                           /\ fileIndex' = fileIndex + 1
                           /\ UNCHANGED <<opc, oldNotices>>
    /\ UNCHANGED <<relevanceThreshold, modified>>

\* lines 79-84 and 135-145: the related notes receive their backlink.
AddBacklinks ==
    /\ opc = "finding"
    /\ fileIndex > Len(vault)
    /\ IF Len(relatedNotes) > 0
         THEN \/ /\ modified' = {relatedNotes[k].file : k \in 1..Len(relatedNotes)}
                 /\ OldEnd("added")
              \/ /\ OldEnd("error")                             \* a read or modify rejects
                 /\ UNCHANGED modified
         ELSE /\ OldEnd("none")
              /\ UNCHANGED modified
    /\ UNCHANGED <<relevanceThreshold, fileIndex, relatedNotes, failedNotes>>

vars == <<rlvars, pvars, fvars, tvars, ovars>>

Init == RLInit /\ PInit /\ FIdle /\ TIdle /\ OIdle

\* The pipeline; nothing in the plugin calls waitForRateLimit.
Next ==
    \/ GenerateBacklinks /\ UNCHANGED <<rlvars, fvars, tvars, ovars>>
    \/ ReadCurrentFails /\ UNCHANGED <<rlvars, fvars, tvars, ovars>>
    \/ ReadCurrent /\ UNCHANGED <<rlvars, fvars, tvars, ovars>>
    \/ CheckTitles /\ UNCHANGED <<rlvars, fvars, tvars, ovars>>
    \/ SkipCandidate /\ UNCHANGED <<rlvars, fvars, tvars, ovars>>
    \/ ReadCandidateFails /\ UNCHANGED <<rlvars, fvars, tvars, ovars>>
    \/ ValidateCandidate /\ UNCHANGED <<rlvars, fvars, tvars, ovars>>
    \/ PauseDone /\ UNCHANGED <<rlvars, fvars, tvars, ovars>>

Spec == Init /\ [][Next]_vars

\* The pipeline when every awaited host call, timer and provider request
\* eventually resolves or rejects: a step that can be taken is taken.
SpecLive == Init /\ [][Next]_vars /\ WF_vars(Next)

\* The state of the pipeline while the rate limiter is run on its own.
PIdle ==
    /\ PInit
    /\ vault = ExampleVault
    /\ activeFile = NoFile
    /\ hasEditor
    /\ settings.model = "gpt-4"
    /\ settings.apiKey
    /\ settings.format = "comma" /\ settings.showHeader /\ settings.headerLevel = 3

\* The rate limiter on its own, called back-to-back.
InitRL == RLInit /\ PIdle /\ FIdle /\ TIdle /\ OIdle

NextRL ==
    \/ (\E p \in Callers : RLCall(p)) /\ UNCHANGED <<pvars, fvars, tvars, ovars, observing>>
    \/ (\E p \in Callers : RLMinuteDone(p)) /\ UNCHANGED <<pvars, fvars, tvars, ovars, observing>>
    \/ (\E p \in Callers : RLIntervalDone(p)) /\ UNCHANGED <<pvars, fvars, tvars, ovars, observing>>
    \/ TimerRuns /\ UNCHANGED <<pvars, fvars, tvars, ovars, observing>>
    \/ CallerIdles /\ UNCHANGED <<pvars, fvars, tvars, ovars, observing>>

SpecRL == InitRL /\ [][NextRL]_vars

\* The same, with a window of 60 s observed from a freely chosen grant.
InitRLWindow ==
    /\ requestsInLastMinute = 0
    /\ sinceLast = MIN_REQUEST_INTERVAL
    /\ rlpc = [p \in Callers |-> "idle"]
    /\ tslr = [p \in Callers |-> 0]
    /\ timer = [p \in Callers |-> 0]
    /\ lastGap = MIN_REQUEST_INTERVAL
    /\ grants = 0
    /\ observing = TRUE
    /\ markOn = FALSE
    /\ markElapsed = 0
    /\ markCount = 0
    /\ PIdle
    /\ FIdle
    /\ TIdle
    /\ OIdle

SpecRLWindow == InitRLWindow /\ [][NextRL]_vars

\* The rate limiter called by several callers whose awaits interleave: a
\* caller may call while another is inside waitForRateLimit.
NextRLConcurrent ==
    \/ (\E p \in Callers : WaitForRateLimit(p)) /\ UNCHANGED <<pvars, fvars, tvars, ovars, observing>>
    \/ (\E p \in Callers : RLMinuteDone(p)) /\ UNCHANGED <<pvars, fvars, tvars, ovars, observing>>
    \/ (\E p \in Callers : RLIntervalDone(p)) /\ UNCHANGED <<pvars, fvars, tvars, ovars, observing>>
    \/ TimerRuns /\ UNCHANGED <<pvars, fvars, tvars, ovars, observing>>
    \/ CallerIdles /\ UNCHANGED <<pvars, fvars, tvars, ovars, observing>>

SpecRLConcurrent == InitRL /\ [][NextRLConcurrent]_vars

\* formatConnections applied to a list of links under each display setting.
InitFormat ==
    /\ RLInit
    /\ PInit
    /\ vault = ExampleVault
    /\ activeFile = NoFile
    /\ hasEditor
    /\ settings.model = "gpt-4"
    /\ settings.apiKey
    /\ FInit
    /\ TIdle
    /\ OIdle

NextFormat == FormatLinks /\ UNCHANGED <<rlvars, pvars, tvars, ovars>>

SpecFormat == InitFormat /\ [][NextFormat]_vars

\* The command that weaves tags, run in an open note under each model.
InitTags ==
    /\ RLInit
    /\ PInit
    /\ vault = ExampleVault
    /\ activeFile = vault[1]
    /\ hasEditor
    /\ settings.format = "comma" /\ settings.showHeader /\ settings.headerLevel = 3
    /\ FIdle
    /\ TInit
    /\ OIdle

NextTags ==
    \/ WeaveTagsIntoNote /\ UNCHANGED <<rlvars, pvars, fvars, ovars>>
    \/ WeaveTagsAnswered /\ UNCHANGED <<rlvars, pvars, fvars, ovars>>

SpecTags == InitTags /\ [][NextTags]_vars

\* One invocation of generateBacklinks during which the user may move to
\* other notes.
InitSwitch ==
    /\ Init
    /\ vault = ExampleVault
    /\ activeFile = vault[1]
    /\ hasEditor
    /\ settings.model = "gpt-4"
    /\ settings.apiKey
    /\ settings.format = "comma" /\ settings.showHeader /\ settings.headerLevel = 3

NextSwitch ==
    \/ Next
    \/ SwitchNote /\ UNCHANGED <<rlvars, fvars, tvars, ovars>>

SpecSwitch == InitSwitch /\ [][NextSwitch]_vars

\* The earliest pipeline, run in the example vault under each threshold.
InitOld ==
    /\ RLInit
    /\ PInit
    /\ vault = ExampleVault
    /\ hasEditor
    /\ settings.model = "gpt-4"
    /\ ~settings.anthropicKey /\ ~settings.togetherApiKey
    /\ settings.format = "comma" /\ settings.showHeader /\ settings.headerLevel = 3
    /\ FIdle
    /\ TIdle
    /\ OInit

NextOld ==
    \/ OldGenerateBacklinks /\ UNCHANGED <<rlvars, pvars, fvars, tvars>>
    \/ OldReadCurrent /\ UNCHANGED <<rlvars, pvars, fvars, tvars>>
    \/ FindRelatedNotes /\ UNCHANGED <<rlvars, pvars, fvars, tvars>>
    \/ AddBacklinks /\ UNCHANGED <<rlvars, pvars, fvars, tvars>>

SpecOld == InitOld /\ [][NextOld]_vars

\* Both commands in one session: neither callback of onload looks whether an
\* earlier invocation is still awaiting, so their steps interleave freely.
InitBoth ==
    /\ RLInit
    /\ PInit
    /\ vault = ExampleVault
    /\ activeFile = vault[1]
    /\ hasEditor
    /\ settings.model = "gpt-4"
    /\ settings.apiKey
    /\ settings.format = "comma" /\ settings.showHeader /\ settings.headerLevel = 3
    /\ FIdle
    /\ TInit
    /\ OIdle
    /\ vaultTags = {Tag(n) : n \in TagNames}
    /\ customTags = <<>>
    /\ ~useOnlyCustomTags
    /\ hasViewFile

NextBoth == Next \/ NextTags

SpecBoth == InitBoth /\ [][NextBoth]_vars

\* ------------------------------------------------------------------------
\* The claims
\* ------------------------------------------------------------------------

\* C1: every outbound model request is preceded by a completed
\* waitForRateLimit call made for that request: there are at least as many
\* grants as requests (both counted up to 2).
C1_RequestsAcquireSlot == Min(requestsSent, 2) <= grants

\* C2: in a sequence of back-to-back waitForRateLimit calls every grant comes
\* at least 500 ms after the grant before it.
C2_MinSpacing == grants >= 2 => lastGap >= 500
C2_Witness == grants >= 2 /\ lastGap = 500 /\ requestsInLastMinute = 0 /\ sinceLast = 0

\* C3: in a sequence of back-to-back waitForRateLimit calls a window of 60 s
\* that starts at any grant holds at most 150 grants.
C3_WindowCap == markOn => markCount <= 150
C3_Witness == markOn /\ markCount = 121 /\ markElapsed = 60000

\* The credential of the selected model's provider family is set (the local
\* servers take none).
CredentialConfigured ==
    CASE MODEL_PRICING(settings.model) = "openai" -> settings.apiKey
      [] MODEL_PRICING(settings.model) = "anthropic" -> settings.anthropicKey
      [] MODEL_PRICING(settings.model) = "together" -> settings.togetherApiKey
      [] OTHER -> TRUE

\* C4: without a credential for the provider family of the selected model
\* generateBacklinks aborts with the notice that asks for a key and issues no
\* model request.
C4_CredentialForSelectedProvider ==
    (pc # "idle" /\ ~CredentialConfigured)
        => pc = "done" /\ notices = <<"needKey">> /\ requestsSent = 0

Docs == {vault[k] : k \in 1..Len(vault)}
Positions == 1..Len(fileInfos)
PositionsOf(f) == {k \in Positions : FileOf(fileInfos[k]) = f}
Validated(k) == status[k] \in {"accepted", "rejected", "threw"}
WasRead(k) == Validated(k) \/ status[k] = "readfail"
Links == {validConnections[k] : k \in 1..Len(validConnections)}

\* C5: a candidate document is validated at most once in an invocation; one
\* whose pre-filter verdict is false is never read or validated and its link
\* is not among the returned links.  (That a candidate is validated only after
\* the verdict at its position was positive is the guard of ValidateCandidate.)
C5_ValidatedOnceAfterPositiveVerdict ==
    \A f \in Docs :
        /\ Cardinality({k \in PositionsOf(f) : Validated(k)}) <= 1
        /\ (\E k \in PositionsOf(f) : status[k] = "skipped")
              => /\ \A k \in PositionsOf(f) : ~WasRead(k)
                 /\ Link(f) \notin Links

\* The response is not an array of n elements.
Malformed(text, n) ==
    LET parsed == JSONParse(text)
    IN  ~(parsed.ok /\ parsed.isArray /\ Len(parsed.elems) = n)

\* C6: when the model's response is not parseable as an array, or is an array
\* of another length than the titles, checkTitlesRelevance returns true for
\* every title.
C6_FailOpenOnMalformed ==
    (lastTitle.called /\ ~lastTitle.http.failed /\ Malformed(lastTitle.http.text, lastTitle.n))
        => /\ ~lastTitle.threw
           /\ lastTitle.result = AllTrue(lastTitle.n)
C6_Witness ==
    /\ lastTitle.called
    /\ ~lastTitle.http.failed
    /\ JSONParse(lastTitle.http.text).isArray
    /\ Len(JSONParse(lastTitle.http.text).elems) = lastTitle.n + 1
    /\ lastTitle.n = CHUNK_SIZE
    /\ lastTitle.result = AllTrue(CHUNK_SIZE)

\* The i of the chunk that entry k of fileInfos belongs to.
ChunkOf(k) == ((k - 1) \div CHUNK_SIZE) * CHUNK_SIZE

\* C7: when the request of checkTitlesRelevance fails, the call does not
\* throw and returns true for every title; no candidate of that chunk is
\* skipped, each of them goes on to validation, and the remaining chunks are
\* processed.
C7_TitleFailureFailsOpen ==
    /\ (lastTitle.called /\ lastTitle.failed)
          => /\ ~lastTitle.threw
             /\ lastTitle.result = AllTrue(lastTitle.n)
             /\ pc = "candidate"
    /\ \A k \in Positions :
          ChunkOf(k) \in failedChunks
              => /\ status[k] # "skipped"
                 /\ pc = "done" => WasRead(k)
    /\ (pc = "done" /\ failedChunks # {}) => \A k \in Positions : status[k] # "pending"
C7_Witness ==
    /\ pc = "done"
    /\ failedChunks = {0}
    /\ Len(fileInfos) > CHUNK_SIZE
    /\ \A k \in 1..CHUNK_SIZE : Validated(k)
    /\ status[CHUNK_SIZE + 1] = "skipped"

\* C8: checkTitlesRelevance returns, for every response, one boolean per
\* title.
C8_BooleanVerdicts ==
    lastTitle.called
        => /\ Len(lastTitle.result) = lastTitle.n
           /\ \A k \in 1..Len(lastTitle.result) : lastTitle.result[k].t = "boolean"

\* C9: when the request of validateConnection fails, the call does not throw
\* and returns false, the link is not added, and the loop goes on with the
\* next candidate.
C9_ValidatorFailsClosed ==
    (lastVal.called /\ lastVal.failed)
        => /\ ~lastVal.threw
           /\ ~lastVal.result
           /\ ~lastVal.pushed
           /\ status[lastVal.pos] = "rejected"
           /\ pc \in {"candidate", "pause"}
           /\ i + j = lastVal.pos
C9_Witness ==
    /\ lastVal.called
    /\ lastVal.failed
    /\ pc = "candidate"
    /\ validConnections # <<>>
    /\ status[lastVal.pos] = "rejected"

\* C10 as stated: for every provider validateConnection returns true exactly
\* when the model's text, trimmed and lower-cased, is "true".
C10_ExactTrueEveryProvider ==
    (lastVal.called /\ ~lastVal.http.failed)
        => (lastVal.result <=> ToLowerCase(Trim(lastVal.http.text)) = TRUE_TEXT)

\* C10 as amended: that holds for every model but ollama; with ollama
\* validateConnection returns true exactly when the model's text, lower-cased,
\* contains "true".  A failed request yields false.
C10_ExactTrueOrOllamaSubstring ==
    lastVal.called
        => (lastVal.result <=>
               /\ ~lastVal.http.failed
               /\ IF settings.model = "ollama"
                    THEN IncludesTrue(ToLowerCase(lastVal.http.text))
                    ELSE ToLowerCase(Trim(lastVal.http.text)) = TRUE_TEXT)
C10_Witness ==
    /\ lastVal.called
    /\ settings.model = "ollama"
    /\ lastVal.result
    /\ lastVal.pushed
    /\ ToLowerCase(Trim(lastVal.http.text)) # TRUE_TEXT

\* The document's path equals an entry of excludedFolders or starts with an
\* entry followed by '/'.
UnderExcludedFolder(f) ==
    \E folder \in settings.excludedFolders :
        \/ Path(f) = folder
        \/ \E n \in 1..(Len(Path(f)) - 1) : SubSeq(Path(f), 1, n) = folder

\* C11: a document under an excluded folder is never sent to the title
\* pre-filter and never validated (no entry of fileInfos resolves to it), and
\* every link returned or written comes from an entry that resolves to a
\* document outside the excluded folders.
C11_ExcludedNeverCandidate ==
    /\ \A k \in Positions : ~UnderExcludedFolder(FileOf(fileInfos[k]))
    /\ \A l \in Links \cup {written[k] : k \in 1..Len(written)} :
          \E k \in Positions :
              /\ fileInfos[k].link = l
              /\ status[k] = "accepted"
              /\ ~UnderExcludedFolder(FileOf(fileInfos[k]))
C11_Witness ==
    /\ pc = "done"
    /\ settings.excludedFolders = {<<"Projects">>}
    /\ written = <<Link(File(<<>>, "X"))>>
    /\ UnderExcludedFolder(File(<<"Projects">>, "X"))
C11_WitnessExactPath ==
    /\ pc = "done"
    /\ settings.excludedFolders = {<<"X.md">>}
    /\ Link(File(<<>>, "X")) \in {connections[k] : k \in 1..Len(connections)}
    /\ fileInfos = <<>>
    /\ notices = <<"finding", "none">>

\* C12: the source document is never evaluated as a candidate: no entry of
\* fileInfos that is read or validated resolves to the source document, and no
\* returned link comes from such an entry.
C12_SourceNeverCandidate ==
    \A k \in Positions :
        (WasRead(k) \/ fileInfos[k].link \in Links) => FileOf(fileInfos[k]) # currentFile

\* generateBacklinks ran to its end without an error.
Completed == pc = "done" /\ notices # <<>> /\ notices[Len(notices)] \in {"added", "none"}
                         /\ currentFile # NoFile

\* C13: every document of the vault other than the source document and not
\* under an excluded folder is submitted to the title pre-filter, in whatever
\* folder it is.
C13_AllDocumentsPrefiltered ==
    Completed =>
        \A f \in Docs :
            (f # currentFile /\ ~UnderExcludedFolder(f))
                => \E k \in PositionsOf(f) : status[k] # "pending"

\* C14: the list of links handed to formatConnections holds each distinct
\* link exactly once.
C14_LinksDistinct ==
    \A a, b \in 1..Len(written) : written[a] = written[b] => a = b

\* The [[...]] link tokens of a text, in the order they occur.
RECURSIVE ExtractLinks(_)
ExtractLinks(text) ==
    IF Len(text) < 3 THEN <<>>
    ELSE IF text[1] = "[[" /\ text[3] = "]]"
      THEN <<SubSeq(text, 1, 3)>> \o ExtractLinks(SubSeq(text, 4, Len(text)))
      ELSE ExtractLinks(Tail(text))

\* The note names of the vaults in lexicographic order, and the place of a
\* link in that order.
SortedNames ==
    <<"A", "B", "C">> \o [k \in 1..BigVault |-> "N" \o ToString(k)] \o <<"S", "X", "Z">>
Rank(link) == CHOOSE k \in 1..Len(SortedNames) : SortedNames[k] = link[2]

\* C15: the links appear in the text generateBacklinks inserts in
\* lexicographic order, whatever the order in which the vault lists its files.
C15_LinksSorted ==
    LET out == ExtractLinks(inserted)
    IN  \A a, b \in 1..Len(out) : a < b => Rank(out[a]) <= Rank(out[b])

\* validateAndFilterConnections has returned to generateBacklinks.
ValidationReturned == pc = "done" /\ currentFile # NoFile
                          /\ \A k \in 1..Len(notices) : notices[k] # "error"

\* C16: when no candidate is accepted, generateBacklinks shows the notice
\* that no connections were found and does not call editor.replaceRange.
C16_NoConnectionsNoWrite ==
    (ValidationReturned /\ validConnections = <<>>)
        => /\ notices = <<"finding", "none">>
           /\ inserted = <<>>
           /\ written = <<>>
C16_Witness ==
    /\ ValidationReturned
    /\ validConnections = <<>>
    /\ hasEditor
    /\ Len(fileInfos) = 2
    /\ status = <<"rejected", "skipped">>
    /\ notices = <<"finding", "none">>

\* The layout as the documentation of the display settings describes it, link
\* by link from position k on.
RECURSIVE Layout(_, _, _)
Layout(links, s, k) ==
    IF k > Len(links) THEN <<>>
    ELSE (IF k = 1 THEN <<>> ELSE IF s.format = "comma" THEN <<", ">> ELSE <<"\n">>)
         \o (IF s.format = "bullet" THEN <<"- ">>
               ELSE IF s.format = "number" THEN <<ToString(k), ". ">> ELSE <<>>)
         \o links[k]
         \o Layout(links, s, k + 1)

HeaderLine(s) ==
    IF s.showHeader THEN [k \in 1..s.headerLevel |-> "#"] \o <<" Related notes", "\n">>
    ELSE <<>>

\* C17: for a non-empty list formatConnections returns the header (present
\* exactly when showHeader is set), the links laid out in the chosen format,
\* and one newline; the single link [[B]] with comma format, header shown,
\* level 3 gives '### Related notes\n[[B]]\n'.
C17_FormatLayout ==
    (fmtpc = "done" /\ fmtLinks # <<>>)
        => /\ fmtOut = HeaderLine(settings) \o Layout(fmtLinks, settings, 1) \o <<"\n">>
           /\ (/\ fmtLinks = <<Link(File(<<>>, "B"))>>
               /\ settings.format = "comma" /\ settings.showHeader
               /\ settings.headerLevel = 3)
                 => fmtOut = <<"#", "#", "#", " Related notes", "\n", "[[", "B", "]]", "\n">>
C17_Witness ==
    /\ fmtpc = "done"
    /\ settings.format = "number" /\ settings.showHeader /\ settings.headerLevel = 6
    /\ fmtLinks = <<Link(File(<<>>, "X")), Link(File(<<>>, "B")), Link(File(<<>>, "X"))>>
    /\ fmtOut = <<"#", "#", "#", "#", "#", "#", " Related notes", "\n",
                  "1", ". ", "[[", "X", "]]", "\n", "2", ". ", "[[", "B", "]]", "\n",
                  "3", ". ", "[[", "X", "]]", "\n">>

\* C18: for each layout, with or without the header, the [[...]] tokens of
\* the text formatConnections returns are exactly the links it was given.
C18_FormatRoundTrip ==
    fmtpc = "done"
        => {ExtractLinks(fmtOut)[k] : k \in 1..Len(ExtractLinks(fmtOut))}
              = {fmtLinks[k] : k \in 1..Len(fmtLinks)}
C18_Witness ==
    /\ fmtpc = "done"
    /\ settings.format = "bullet" /\ ~settings.showHeader
    /\ fmtLinks = <<Link(File(<<>>, "C")), Link(File(<<>>, "B")), Link(File(<<>>, "X"))>>
    /\ ExtractLinks(fmtOut) = fmtLinks

\* The available vocabulary: the vault's tags unless useOnlyCustomTags, and
\* the custom tags with '#' in front.
Vocabulary ==
    (IF useOnlyCustomTags THEN {} ELSE vaultTags)
        \cup {IF Len(customTags[k]) > 0 /\ Head(customTags[k]) = "#"
                THEN customTags[k] ELSE <<"#">> \o customTags[k] : k \in 1..Len(customTags)}

\* The words of a text that are separated by single spaces.
RECURSIVE Words(_)
Words(text) ==
    IF \A k \in 1..Len(text) : text[k] # " " THEN {text}
    ELSE LET c == CHOOSE k \in 1..Len(text) : text[k] = " "
         IN  Words(SubSeq(text, 1, c - 1)) \cup Words(SubSeq(text, c + 1, Len(text)))

\* A response to the tag request has arrived.
TagsAnswered == tpc = "done" /\ tagResponse.received /\ ~tagResponse.http.failed

\* The comma-separated entries of the response, trimmed.
ResponseTags ==
    {Trim(Split(tagResponse.http.text)[k]) : k \in 1..Len(Split(tagResponse.http.text))}

\* C19: every tag weaveTagsIntoNote inserts is in the available vocabulary
\* and not among the note's existing tags; a response with tags outside the
\* vocabulary raises no error.
C19_InsertedTagsFromVocabulary ==
    /\ tagInserted # <<>>
          => /\ Head(tagInserted) = "\n"
             /\ \A tag \in Words(Tail(tagInserted)) : tag \in Vocabulary /\ tag \notin noteTags
    /\ (TagsAnswered /\ ~(ResponseTags \subseteq Vocabulary))
          => \A k \in 1..Len(tagNotices) : tagNotices[k] # "tagError"
C19_Witness ==
    /\ TagsAnswered
    /\ useOnlyCustomTags
    /\ customTags = << <<"travel">> >>
    /\ Tag("food") \in ResponseTags
    /\ tagInserted = <<"\n">> \o Tag("travel")
    /\ tagNotices = <<"addedTags">>

\* C20: an empty vocabulary, a response none of whose tags is in the
\* vocabulary, and a response whose tags of the vocabulary are all in the note
\* already each end with their informational notice, without the error
\* notice and without a change to the note.
C20_EmptyOutcomesInform ==
    /\ (tpc = "done" /\ Vocabulary = {})
          => tagNotices = <<"noTags">> /\ tagInserted = <<>>
    /\ (TagsAnswered /\ ResponseTags \cap Vocabulary = {})
          => tagNotices = <<"noRelevant">> /\ tagInserted = <<>>
    /\ (/\ TagsAnswered /\ hasViewFile
        /\ ResponseTags \cap Vocabulary # {}
        /\ ResponseTags \cap Vocabulary \subseteq noteTags)
          => tagNotices = <<"allPresent">> /\ tagInserted = <<>>
C20_Witness ==
    /\ TagsAnswered
    /\ hasViewFile
    /\ ResponseTags = {Tag("finance"), Tag("travel")}
    /\ noteTags = {Tag("finance"), Tag("travel")}
    /\ tagNotices = <<"allPresent">>
    /\ tagInserted = <<>>

\* The model requests awaiting their answer: the title request of the chunk
\* at i is out while pc = "titles" (the call of line 1491 runs on to its fetch
\* before it yields), the tag request while tpc = "requesting".
RequestsInFlight ==
    (IF pc = "titles" THEN 1 ELSE 0) + (IF tpc = "requesting" THEN 1 ELSE 0)

\* C21: at any moment at most one model request is in flight, whatever the
\* sequence of triggers of the two commands.
C21_OneRequestInFlight == RequestsInFlight <= 1

\* generateBacklinks has ended without writing links because of a failure: no
\* credential, no active file, no editor for the accepted links, or an error.
FailureNoticeKinds == {"needKey", "noActiveFile", "noEditor", "error"}
EndedInFailure ==
    /\ pc = "done"
    /\ inserted = <<>>
    /\ \/ ~settings.apiKey /\ ~settings.togetherApiKey /\ ~settings.anthropicKey
       \/ activeFile = NoFile
       \/ validConnections # <<>> /\ ~hasEditor
       \/ \E k \in 1..Len(notices) : notices[k] = "error"

\* C22: every path on which generateBacklinks ends without writing links
\* because of a failure shows exactly one notification of the failure.
C22_FailureNotifiedOnce ==
    EndedInFailure
        => Cardinality({k \in 1..Len(notices) : notices[k] \in FailureNoticeKinds}) = 1

\* C23: once the first validateConnection request of an invocation has been
\* issued, no checkTitlesRelevance request is issued in it any more: a title
\* request is only made while no entry has been validated.
C23_PrefilterBeforeValidation ==
    lastTitle.called => \A k \in Positions : ~Validated(k)

\* The wire adapters of a model's provider kind (the local kind has one for
\* each of its two servers).
AdaptersOfProvider(model) ==
    CASE MODEL_PRICING(model) = "openai" -> {"openai"}
      [] MODEL_PRICING(model) = "anthropic" -> {"claude"}
      [] MODEL_PRICING(model) = "together" -> {"together"}
      [] OTHER -> {"llama", "ollama"}

\* C24: the title request and the validation request of an invocation go
\* through the wire adapter of the selected model's provider kind.
C24_AdapterOfProvider ==
    /\ lastTitle.called
          => MakeOpenAIRequest(settings.model, lastTitle.http).adapter
                \in AdaptersOfProvider(settings.model)
    /\ lastVal.called
          => ValidateRequest(settings.model, lastVal.http).adapter
                \in AdaptersOfProvider(settings.model)

\* Where the token 'true' / 'false' first occurs in a text, 0 when nowhere.
FirstTrue(text) ==
    LET at == {k \in 1..Len(text) : LexHasTrue(LexLower(text[k]))}
    IN  IF at = {} THEN 0 ELSE CHOOSE k \in at : \A m \in at : k <= m
FirstFalse(text) ==
    LET at == {k \in 1..Len(text) : LexHasFalse(LexLower(text[k]))}
    IN  IF at = {} THEN 0 ELSE CHOOSE k \in at : \A m \in at : k <= m

\* C25: both local adapters reduce the raw text to 'true' or 'false', whichever
\* token occurs first, and fail when neither occurs.
C25_LocalFirstTokenWins ==
    (lastVal.called /\ ~lastVal.http.failed /\ MODEL_PRICING(settings.model) = "local")
        => LET text == lastVal.http.text
               answer == MakeLlamaRequest(settings.model, lastVal.http)
           IN  IF FirstTrue(text) = 0 /\ FirstFalse(text) = 0
                 THEN answer.threw
               ELSE IF FirstFalse(text) = 0
                        \/ (FirstTrue(text) # 0 /\ FirstTrue(text) < FirstFalse(text))
                 THEN ~answer.threw /\ answer.content = <<"true">>
               ELSE ~answer.threw /\ answer.content = <<"false">>

\* C26: weaveTagsIntoNote with a non-empty vocabulary issues exactly one
\* model request, for every model of the settings.
C26_OneTagRequest ==
    (tpc = "done" /\ Vocabulary # {}) => tagRequests = 1

\* C27: when several callers call waitForRateLimit concurrently, slots are
\* still acquired one at a time: every grant comes at least 500 ms after the
\* grant before it.
C27_ConcurrentSpacing == grants >= 2 => lastGap >= MIN_REQUEST_INTERVAL

C29_SameNoteThroughout ==
    /\ inserted # <<>> => target = currentFile
    /\ pc \in {"titles", "candidate", "pause"} => currentTitle = currentFile.base

\* C30: in the earliest pipeline a note whose relevance request fails or is
\* answered without a number is never added to the related notes and never
\* receives a backlink, under every threshold of the slider.
C30_FailedNoteNeverLinked ==
    \A f \in failedNotes :
        /\ \A k \in 1..Len(relatedNotes) : relatedNotes[k].file # f
        /\ f \notin modified
====
